---- MODULE Spec2Model ----
(***************************************************************************)
(* Model of the analysis page in src/app.py (an HTML page whose script     *)
(* builds a simulated analysis for a symbol and a timeframe).              *)
(*                                                                         *)
(* Numbers.  Math.random() returns a value in [0,1); the model draws it in *)
(* thousandths (an integer 0..999).  Probabilities are kept in             *)
(* ten-thousandths (0.4 is 4000), the percentages of the recommendation in *)
(* thousandths of a percent before toFixed(1) and in tenths of a percent   *)
(* after it, prices in thousandths of a unit.                              *)
(*                                                                         *)
(* Randomness.  One computation makes many Math.random() calls.  The model *)
(* numbers the calls of one computation (DrawPos...) and takes the values  *)
(* from a stream s: Rnd(s, n) is the value of call n.  The stream is the   *)
(* input the action draws with \E; nothing in the code seeds it.           *)
(***************************************************************************)
EXTENDS Integers, Sequences, FiniteSets, TLC

VARIABLES
    analysis,   \* the analysis the page shows (the last one that resolved)
    alerted,    \* whether the catch branch of updateAnalysis has run
    requests,   \* how many times updateAnalysis has been called
    symbolSelect,     \* value of the symbol select
    timeframeSelect,  \* value of the timeframe select
    timers,     \* the pending setTimeout callbacks, oldest first
    lastCall,   \* symbol and timeframe the latest call of updateAnalysis read
    page        \* what the recommendation, the two charts and the table show

pageVars == <<symbolSelect, timeframeSelect, timers, lastCall, page>>

vars == <<analysis, alerted, requests, symbolSelect, timeframeSelect, timers,
          lastCall, page>>

\* ---------------------------------------------------------------- inputs

\* Options of the two selects (a subset of the five symbols is enough: the
\* symbol is only echoed into the result).
Symbols == {"AAPL", "MSFT"}

Timeframes == {"daily", "weekly", "monthly", "intraday"}

\* Strings that are not an option of the timeframe select.
Unrecognized == {"yearly"}

\* Values a Math.random() call may return, in thousandths.
RandVals == <<0, 100, 200, 350, 500, 650, 900, 999>>

\* How many calls of updateAnalysis (the one of the page load and the clicks
\* of the Update button) a behaviour follows.
MaxRequests == 1

\* A stream is an offset into RandVals and a stride between calls.
MaxStride == 1

Streams == (0 .. Len(RandVals) - 1) \X (0 .. MaxStride)

Rnd(s, n) == RandVals[((s[1] + s[2] * n) % Len(RandVals)) + 1]

\* ------------------------------------------------- numbers and rendering

\* Number.prototype.toFixed(1) of a value given in thousandths: the result
\* in tenths (rounded to nearest).
ToFixed1(milli) == (milli + 50) \div 100

Abs(x) == IF x < 0 THEN -x ELSE x

\* -------------------------------------------- generateMockRecommendation

\* The record returned for a draw rand, percentages in thousandths of a
\* percent: base + rand * slope.
RecRecord(label, rand, confSlope, confBase, bullSlope, bullBase) ==
    [recommendation |-> label,
     confidence     |-> ToFixed1(rand * confSlope + confBase),
     bullish_prob   |-> ToFixed1(rand * bullSlope + bullBase),
     bearish_prob   |-> ToFixed1(100000 - (rand * bullSlope + bullBase))]

generateMockRecommendation(s) ==
    LET rand == Rnd(s, 0) IN
    IF rand > 600 THEN RecRecord("Strong Buy", rand, 30, 70000, 20, 60000)
    ELSE IF rand > 400 THEN RecRecord("Buy", rand, 30, 50000, 15, 55000)
    ELSE IF rand > 300 THEN RecRecord("Neutral", rand, 20, 30000, 10, 45000)
    ELSE IF rand > 150 THEN RecRecord("Sell", rand, 30, 50000, 15, 30000)
    ELSE RecRecord("Strong Sell", rand, 30, 70000, 10, 20000)

\* ---------------------------------------------------- generateMockTransits

planets == <<"Sun", "Moon", "Mercury", "Venus", "Mars",
             "Jupiter", "Saturn", "Uranus", "Neptune", "Pluto">>

zodiacs == <<"Aries", "Taurus", "Gemini", "Cancer", "Leo", "Virgo", "Libra",
             "Scorpio", "Sagittarius", "Capricorn", "Aquarius", "Pisces">>

aspects == <<"conjunction", "sextile", "square", "trine", "opposition">>

\* Math.floor(Math.random() * n) for a draw in thousandths.
FloorTimes(rand, n) == (rand * n) \div 1000

\* The count drawn over five values: Math.floor(Math.random() * 5) + 2.
TransitCountOfFive(rand) == FloorTimes(rand, 5) + 2

\* Math.floor(Math.random() * 3) + 2
TransitCount(rand) == FloorTimes(rand, 3) + 2

\* Calls of Math.random() are numbered within one computation: call 0 is the
\* recommendation's, then EntryDraws calls are reserved for each entry of
\* the probabilities (its bullish draw, the transit count, five draws for
\* each of at most MaxTransits transits), then the price data's calls.
MaxTransits == 4

EntryDraws == 2 + 5 * MaxTransits

\* The quarter-hour slots of for (h = 9; h < 16; h++) for (m = 0; m < 60;
\* m += 15): the most entries generateMockProbabilities pushes.
SlotsPerDay == (16 - 9) * 4

EntryPos(k) == 1 + (k - 1) * EntryDraws

PricePos == 1 + SlotsPerDay * EntryDraws

\* The transits of entry k (k counts the pushes from 1); orb in tenths.
generateMockTransits(s, k) ==
    LET base  == EntryPos(k) + 1
        count == TransitCount(Rnd(s, base))
        d(i, f) == Rnd(s, base + 1 + 5 * i + f)
    IN [j \in 1 .. count |->
          [planet      |-> planets[FloorTimes(d(j - 1, 0), Len(planets)) + 1],
           zodiac_sign |-> zodiacs[FloorTimes(d(j - 1, 1), Len(zodiacs)) + 1],
           aspect      |-> aspects[FloorTimes(d(j - 1, 2), Len(aspects)) + 1],
           orb         |-> ToFixed1(d(j - 1, 3) * 5),
           retrograde  |-> d(j - 1, 3 + 1) > 850]]

\* ------------------------------------------------ generateMockProbabilities

\* Dates are kept relative to `now`: months and days before (negative) now,
\* and the time of day, which is now's (NowTime) unless setHours set it.
NowTime == <<-1, -1>>

DateOf(months, days, time) == [months |-> months, days |-> days, time |-> time]

\* The time of the q-th quarter-hour slot (q from 0) of
\* for (h = 9; h < 16; h++) for (m = 0; m < 60; m += 15).
SlotTime(q) == <<9 + q \div 4, 15 * (q % 4)>>

\* The weekly count taken as the days of a week.
ProbCountWeekOfDays(timeframe) ==
    IF timeframe = "intraday" THEN 1
    ELSE IF timeframe = "daily" THEN 7
    ELSE IF timeframe = "weekly" THEN 7 ELSE 12

ProbCount(timeframe) ==
    IF timeframe = "intraday" THEN 1
    ELSE IF timeframe = "daily" THEN 7
    ELSE IF timeframe = "weekly" THEN 4 ELSE 12

\* const bullish = 0.4 + Math.random() * 0.3, in ten-thousandths
Bullish(rand) == 4000 + rand * 3

\* The complement taken to the top of the drawn range (0.7) instead of 1.
BearishOfRange(bullish) == 7000 - bullish

Bearish(bullish) == 10000 - bullish

ProbEntry(s, k, date) ==
    LET bullish == Bullish(Rnd(s, EntryPos(k))) IN
    [date         |-> date,
     bullish_prob |-> bullish,
     bearish_prob |-> Bearish(bullish),
     transits     |-> generateMockTransits(s, k)]

generateMockProbabilities(timeframe, s) ==
    LET count == ProbCount(timeframe) IN
    IF timeframe = "intraday"
    THEN [k \in 1 .. count * SlotsPerDay |->
            ProbEntry(s, k, DateOf(0, 0, SlotTime((k - 1) % SlotsPerDay)))]
    ELSE [k \in 1 .. count |->
            ProbEntry(s, k, DateOf(0, -(count - (k - 1) - 1), NowTime))]

\* ---------------------------------------------------- generateMockPriceData

PriceCount(timeframe) ==
    IF timeframe = "intraday" THEN 28
    ELSE IF timeframe = "daily" THEN 7
    ELSE IF timeframe = "weekly" THEN 4 ELSE 12

\* let price = 100 + Math.random() * 50, in thousandths
StartPrice(rand) == 100000 + rand * 50

\* price *= 1 + (Math.random() - 0.5) * scale, scale given in thousandths
\* (0.005 is 5, 0.05 is 50): price + price * (rand - 500) * scale / 10^6.
\* The step without its "1 +": price *= (Math.random() - 0.5) * scale.
StepPriceNoOne(price, rand, scale) == (price * (rand - 500)) \div (1000000 \div scale)

StepPrice(price, rand, scale) == price + (price * (rand - 500)) \div (1000000 \div scale)

\* 0.5 + (Math.random() - 0.5) * 0.2, in ten-thousandths
PointProb(rand) == 5000 + (rand - 500) * 2

\* The three draws of the n-th pushed point (n from 1).
PointDraw(s, n, f) == Rnd(s, PricePos + 1 + 3 * (n - 1) + f)

PricePoint(s, n, timestamp, price) ==
    [timestamp    |-> timestamp,
     price        |-> price,
     bullish_prob |-> PointProb(PointDraw(s, n, 1)),
     bearish_prob |-> PointProb(PointDraw(s, n, 2))]

\* The date the non-intraday branch gives iteration i.
PriceDate(timeframe, count, i) ==
    IF timeframe = "daily" THEN DateOf(0, -(count - i - 1), NowTime)
    ELSE IF timeframe = "weekly" THEN DateOf(0, -((count - i - 1) * 7), NowTime)
    ELSE DateOf(-(count - i - 1), 0, NowTime)

\* The loops of generateMockPriceData.  The state of the loops is the list so
\* far, the running price and the two counters: i of the outer loop, q the
\* quarter-hour slot (h, m) of the inner loops.

\* for (h = 9; h < 16; h++) for (m = 0; m < 60; m += 15), from slot st.q on.
RECURSIVE IntradaySlots(_, _)
IntradaySlots(s, st) ==
    IF st.q >= SlotsPerDay THEN st
    ELSE LET n     == Len(st.result) + 1
             price == StepPrice(st.price, PointDraw(s, n, 0), 5)
         IN IntradaySlots(s,
                [st EXCEPT !.result = Append(@, PricePoint(s, n, DateOf(0, 0, SlotTime(st.q)), price)),
                           !.price  = price,
                           !.q      = @ + 1])

\* for (let i = 0; i < count; i++), from iteration st.i on.
RECURSIVE PriceLoop(_, _, _, _)
PriceLoop(timeframe, s, count, st) ==
    IF st.i >= count THEN st
    ELSE IF timeframe = "intraday"
         THEN PriceLoop(timeframe, s, count,
                  [IntradaySlots(s, [st EXCEPT !.q = 0]) EXCEPT !.i = @ + 1])
         ELSE LET n     == Len(st.result) + 1
                  price == StepPrice(st.price, PointDraw(s, n, 0), 50)
              IN PriceLoop(timeframe, s, count,
                     [st EXCEPT !.result = Append(@, PricePoint(s, n, PriceDate(timeframe, count, st.i), price)),
                                !.price  = price,
                                !.i      = @ + 1])

generateMockPriceData(timeframe, s) ==
    PriceLoop(timeframe, s, PriceCount(timeframe),
              [result |-> <<>>, price |-> StartPrice(Rnd(s, PricePos)),
               i |-> 0, q |-> 0]).result

\* ------------------------------------------------ generateSimulatedAnalysis

\* The object the timeout callback resolves the promise with.
generateSimulatedAnalysis(symbol, timeframe, s) ==
    [symbol                 |-> symbol,
     timeframe              |-> timeframe,
     current_recommendation |-> generateMockRecommendation(s),
     probabilities          |-> generateMockProbabilities(timeframe, s),
     price_data             |-> generateMockPriceData(timeframe, s)]

\* ------------------------------------------------------------ updateAnalysis

\* No analysis has resolved yet (the page shows its placeholders).
NoAnalysis == [symbol |-> "none"]

\* updateAnalysis for the selected symbol and timeframe, run to the end of
\* its continuation: the analysis resolves and is handed to updateCharts,
\* updateRecommendation and updateTransitsTable; the catch branch (the
\* alert) runs only when one of them throws, which none does.
updateAnalysis(symbol, timeframe, s) ==
    /\ requests < MaxRequests
    /\ requests' = requests + 1
    /\ analysis' = generateSimulatedAnalysis(symbol, timeframe, s)
    /\ UNCHANGED alerted
    /\ UNCHANGED pageVars

\* The page before any call of updateAnalysis: the selects on their first
\* option, the panels on their placeholders, no chart.
NoCall == [request |-> 0]

Placeholder == [of |-> NoCall]

PageLoaded ==
    /\ symbolSelect = "AAPL"
    /\ timeframeSelect = "intraday"
    /\ timers = <<>>
    /\ lastCall = NoCall
    /\ page = [recommendationDiv |-> Placeholder, priceChart |-> Placeholder,
               probabilityChart |-> Placeholder, transitsBody |-> Placeholder]

Init ==
    /\ analysis = NoAnalysis
    /\ alerted = FALSE
    /\ requests = 0
    /\ PageLoaded

\* The page: the timeframe is an option of the select.
Next ==
    \E symbol \in Symbols, timeframe \in Timeframes, s \in Streams :
        updateAnalysis(symbol, timeframe, s)

Spec == Init /\ [][Next]_vars

\* A direct call: the timeframe is any string.
NextAny ==
    \E symbol \in Symbols, timeframe \in Timeframes \cup Unrecognized, s \in Streams :
        updateAnalysis(symbol, timeframe, s)

SpecAny == Init /\ [][NextAny]_vars

HasAnalysis == analysis # NoAnalysis

\* ------------------------------------------------------------------ claims

Last(seq) == seq[Len(seq)]

\* A probability in ten-thousandths as the percentage toFixed(1) renders,
\* in tenths of a percent.
PctTenths(prob) == ToFixed1(prob * 10)

\* C1: in the probabilities of an analysis, for every timeframe, bullish and
\* bearish probability of every entry add up to 1 and both lie in [0, 1].
ProbabilitiesSumToOne ==
    HasAnalysis =>
        \A k \in DOMAIN analysis.probabilities :
            LET e == analysis.probabilities[k] IN
            /\ e.bullish_prob + e.bearish_prob = 10000
            /\ e.bullish_prob \in 0 .. 10000
            /\ e.bearish_prob \in 0 .. 10000

\* C1, the case: an intraday analysis one of whose entries drew the largest
\* bullish probability.
ProbabilitiesSumToOneWitness ==
    /\ HasAnalysis
    /\ analysis.timeframe = "intraday"
    /\ Len(analysis.probabilities) > 1
    /\ \E k \in DOMAIN analysis.probabilities :
           analysis.probabilities[k].bullish_prob = Bullish(999)

\* C2 as stated: the recommendation reports the bullish and bearish
\* probability of the last entry of the probabilities of the same analysis,
\* as percentages, and its label is a function of that entry alone (two
\* computations with the same last entry have the same label).
RecommendationFromLastEntry ==
    HasAnalysis =>
        LET rec  == analysis.current_recommendation
            last == Last(analysis.probabilities)
            n    == Len(analysis.probabilities)
        IN /\ rec.bullish_prob = PctTenths(last.bullish_prob)
           /\ rec.bearish_prob = PctTenths(last.bearish_prob)
           /\ \A s \in Streams :
                  ProbEntry(s, n, last.date) = last
                      => generateMockRecommendation(s).recommendation = rec.recommendation

\* The label the thresholds of the specification select, probabilities in
\* tenths of a percent.
ThresholdLabel(bullish, bearish) ==
    IF bullish > 600 THEN "Strong Buy"
    ELSE IF bullish > 550 THEN "Buy"
    ELSE IF bearish > 600 THEN "Strong Sell"
    ELSE IF bearish > 550 THEN "Sell"
    ELSE "Neutral"

\* C3 as stated: the label of a recommendation is the one the thresholds
\* select from the recommendation's own bullish and bearish probability.
LabelByThresholds ==
    HasAnalysis =>
        LET rec == analysis.current_recommendation IN
        rec.recommendation = ThresholdLabel(rec.bullish_prob, rec.bearish_prob)

\* The confidence the specification gives a label, in tenths of a percent.
ThresholdConfidence(label, bullish) ==
    IF label \in {"Strong Buy", "Strong Sell"} THEN Abs(bullish - 500)
    ELSE IF label \in {"Buy", "Sell"} THEN (Abs(bullish - 500) * 8) \div 10
    ELSE 0

\* C4 as stated: the confidence is abs(bullish - 0.5) x 100 for the strong
\* labels, x 80 for Buy and Sell, 0 for Neutral, so never above 50%.
ConfidenceFromProbability ==
    HasAnalysis =>
        LET rec == analysis.current_recommendation IN
        /\ rec.confidence = ThresholdConfidence(rec.recommendation, rec.bullish_prob)
        /\ rec.confidence <= 500

InvalidTimeframeRejected ==
    HasAnalysis => analysis.timeframe \in Timeframes

\* C7 as stated: a computation for the same symbol and timeframe produces
\* the identical output, whatever Math.random() returns.
Deterministic ==
    HasAnalysis =>
        \A s \in Streams :
            generateSimulatedAnalysis(analysis.symbol, analysis.timeframe, s) = analysis

\* C8: every price of the price data is strictly positive.
PricePositive ==
    HasAnalysis =>
        \A k \in DOMAIN analysis.price_data : analysis.price_data[k].price > 0

\* C8, the case: an intraday analysis whose price fell at every one of its
\* 784 steps (every draw the smallest) and is still positive.
PricePositiveWitness ==
    /\ HasAnalysis
    /\ analysis.timeframe = "intraday"
    /\ analysis.price_data[1].price < StartPrice(0)
    /\ \A k \in 2 .. Len(analysis.price_data) :
           analysis.price_data[k].price < analysis.price_data[k - 1].price
    /\ Last(analysis.price_data).price > 0

Bodies(transits) == {transits[j].planet : j \in DOMAIN transits}

PlanetSet == {planets[j] : j \in DOMAIN planets}

\* C9 as stated: every period carries exactly 10 transits, one for each of
\* the 10 bodies.
OneTransitPerBody ==
    HasAnalysis =>
        \A k \in DOMAIN analysis.probabilities :
            LET t == analysis.probabilities[k].transits IN
            /\ Len(t) = Len(planets)
            /\ Bodies(t) = PlanetSet

RECURSIVE TransitTotal(_, _)
TransitTotal(probabilities, k) ==
    IF k = 0 THEN 0
    ELSE Len(probabilities[k].transits) + TransitTotal(probabilities, k - 1)

\* C9 as amended: every period carries between 2 and 4 transits, each of a
\* body of the 10-body set (a body may appear more than once and most do
\* not appear), so N periods yield between 2 x N and 4 x N events.
TransitsPerPeriod ==
    HasAnalysis =>
        LET n == Len(analysis.probabilities) IN
        /\ \A k \in DOMAIN analysis.probabilities :
               LET t == analysis.probabilities[k].transits IN
               /\ Len(t) \in 2 .. 4
               /\ Bodies(t) \subseteq PlanetSet
        /\ TransitTotal(analysis.probabilities, n) \in 2 * n .. 4 * n

\* C9, the case: an analysis with a period of 2, one of 3 and one of 4
\* transits, one of them with the same body twice.
TransitsPerPeriodWitness ==
    /\ HasAnalysis
    /\ \A c \in 2 .. 4 : \E k \in DOMAIN analysis.probabilities :
           Len(analysis.probabilities[k].transits) = c
    /\ \E k \in DOMAIN analysis.probabilities :
           LET t == analysis.probabilities[k].transits IN
           Cardinality(Bodies(t)) < Len(t)

\* The bodies updateTransitsTable reads as bullish and as bearish.
BullishBodies == {"Jupiter", "Venus", "Sun"}

BearishBodies == {"Saturn", "Mars", "Pluto"}

\* C10 as stated: a period whose transits have no body of the bullish and
\* none of the bearish set has the probability pair (0.5, 0.5), and the
\* bullish probability of a period is determined by its transits (two
\* periods with the same transits have the same probability).
NeutralWithoutClassified ==
    HasAnalysis =>
        \A k \in DOMAIN analysis.probabilities :
            LET e == analysis.probabilities[k] IN
            /\ Bodies(e.transits) \cap (BullishBodies \cup BearishBodies) = {}
                   => e.bullish_prob = 5000 /\ e.bearish_prob = 5000
            /\ \A j \in DOMAIN analysis.probabilities :
                   analysis.probabilities[j].transits = e.transits
                       => analysis.probabilities[j].bullish_prob = e.bullish_prob

\* Two dates fall on the same calendar date: the same months and days
\* before now (k months before now is never k days before now for k > 0).
SameDay(d1, d2) == d1.months = d2.months /\ d1.days = d2.days

\* C11 as stated: for daily, weekly and monthly the price data has one point
\* for each entry of the probabilities: the lists are as long as each other
\* and the i-th point falls on the calendar date of the i-th entry.
OnePointPerPeriod ==
    (HasAnalysis /\ analysis.timeframe \in {"daily", "weekly", "monthly"}) =>
        /\ Len(analysis.price_data) = Len(analysis.probabilities)
        /\ \A i \in DOMAIN analysis.price_data :
               i \in DOMAIN analysis.probabilities
                   => SameDay(analysis.price_data[i].timestamp,
                              analysis.probabilities[i].date)

\* A time of day <<h, m>> in minutes.
Minutes(time) == time[1] * 60 + time[2]

\* C12 as stated: an intraday price series has one point for each quarter
\* hour from 09:00 to 15:45, 28 points, with timestamps in increasing order
\* (so pairwise distinct), matching the 28 intraday entries of the
\* probabilities.
IntradayOnePointPerSlot ==
    (HasAnalysis /\ analysis.timeframe = "intraday") =>
        /\ Len(analysis.price_data) = 28
        /\ Len(analysis.probabilities) = 28
        /\ \A i \in DOMAIN analysis.price_data :
               /\ analysis.price_data[i].timestamp.time \in {SlotTime(q) : q \in 0 .. 27}
               /\ i > 1 => Minutes(analysis.price_data[i - 1].timestamp.time)
                               < Minutes(analysis.price_data[i].timestamp.time)
               /\ i \in DOMAIN analysis.probabilities
                      => analysis.price_data[i].timestamp = analysis.probabilities[i].date

\* ------------------------------------------------------------------ the page
\* The page with its pending requests.  updateAnalysis is async: a call reads
\* the two selects and, in generateSimulatedAnalysis, sets a timeout of 500
\* ms; the timeout callback builds the analysis and resolves the promise, and
\* the rest of updateAnalysis (updateCharts, updateRecommendation,
\* updateTransitsTable) runs as the promise's continuation before any other
\* event.  A panel is kept as the analysis it was drawn from (of: the call,
\* its symbol and timeframe, the draws): the lists it shows are those of
\* generateSimulatedAnalysis(of.symbol, of.timeframe, of.draws).

\* How many clicks of the Update button a behaviour follows (after the call
\* of the page load).
MaxClicks == 2

\* The timeouts that may run next.  Every timeout has the same delay, so
\* they run in the order they were set: only the oldest.
DueAnyOrder(ts) == DOMAIN ts

Due(ts) == {1}

Remove(ts, i) == SubSeq(ts, 1, i - 1) \o SubSeq(ts, i + 1, Len(ts))

selectSymbol(symbol) ==
    /\ symbol # symbolSelect
    /\ symbolSelect' = symbol
    /\ UNCHANGED <<analysis, alerted, requests, timeframeSelect, timers, lastCall, page>>

selectTimeframe(timeframe) ==
    /\ timeframe # timeframeSelect
    /\ timeframeSelect' = timeframe
    /\ UNCHANGED <<analysis, alerted, requests, symbolSelect, timers, lastCall, page>>

\* The call a click (or the page load) makes, with the selects as they are.
CallOf(request) ==
    [request |-> request, symbol |-> symbolSelect, timeframe |-> timeframeSelect]

\* A click of the Update button: updateAnalysis up to its await.
clickUpdate ==
    /\ requests < 1 + MaxClicks
    /\ requests' = requests + 1
    /\ timers' = Append(timers, CallOf(requests + 1))
    /\ lastCall' = CallOf(requests + 1)
    /\ UNCHANGED <<analysis, alerted, symbolSelect, timeframeSelect, page>>

Title(a, what) == <<a.symbol, what, a.timeframe>>

\* updateCharts: both charts get the data and the title of the analysis
\* (created on the first call, updated afterwards).
updateCharts(pg, a) ==
    [pg EXCEPT !.priceChart = [of |-> a, title |-> Title(a, "Price")],
               !.probabilityChart =
                   [of |-> a, title |-> Title(a, "Bullish/Bearish Probability")]]

updateRecommendation(pg, a) ==
    [pg EXCEPT !.recommendationDiv =
                   [of |-> a, shown |-> generateMockRecommendation(a.draws)]]

updateTransitsTable(pg, a) ==
    [pg EXCEPT !.transitsBody = [of |-> a]]

\* A timeout callback and the continuation of the updateAnalysis that
\* awaits it.
timeoutCallback(s) ==
    /\ timers # <<>>
    /\ \E i \in Due(timers) :
           LET a == [request   |-> timers[i].request,
                     symbol    |-> timers[i].symbol,
                     timeframe |-> timers[i].timeframe,
                     draws     |-> s]
           IN /\ timers' = Remove(timers, i)
              /\ page' = updateTransitsTable(
                             updateRecommendation(updateCharts(page, a), a), a)
    /\ UNCHANGED <<analysis, alerted, requests, symbolSelect, timeframeSelect, lastCall>>

\* The script has run: the page is loaded and updateAnalysis() was called
\* once with the first option of each select.
InitPage ==
    /\ analysis = NoAnalysis
    /\ alerted = FALSE
    /\ symbolSelect = "AAPL"
    /\ timeframeSelect = "intraday"
    /\ requests = 1
    /\ timers = <<CallOf(1)>>
    /\ lastCall = CallOf(1)
    /\ page = [recommendationDiv |-> Placeholder, priceChart |-> Placeholder,
               probabilityChart |-> Placeholder, transitsBody |-> Placeholder]

NextPage ==
    \/ \E symbol \in Symbols : selectSymbol(symbol)
    \/ \E timeframe \in Timeframes : selectTimeframe(timeframe)
    \/ clickUpdate
    \/ \E s \in Streams : timeoutCallback(s)

SpecPage == InitPage /\ [][NextPage]_vars

\* The panels of the page.
Panels == {"recommendationDiv", "priceChart", "probabilityChart", "transitsBody"}

\* The call whose analysis the page shows (0: none yet).
Shown == page.priceChart.of.request

\* The panels all show the analysis of one call.
OneAnalysis == \A p \in Panels : page[p].of = page.priceChart.of

\* Once nothing is pending, the page shows the analysis of the latest call,
\* with the symbol and the timeframe that call read from the selects.
LatestWhenIdle ==
    timers = <<>> =>
        /\ Shown = requests
        /\ \A p \in Panels :
               /\ page[p].of.symbol = lastCall.symbol
               /\ page[p].of.timeframe = lastCall.timeframe
        /\ page.priceChart.title = Title(lastCall, "Price")
        /\ page.probabilityChart.title = Title(lastCall, "Bullish/Bearish Probability")

\* A step that changes the page applies the call issued right after the one
\* shown.
NextInOrder == page' # page => page'.priceChart.of.request = Shown + 1

\* C13: under any interleaving of the page load's call and the clicks,
\* results are applied in the order the calls were made, the four panels
\* always show one and the same analysis, and once nothing is pending the
\* page shows the analysis of the latest call with the symbol and timeframe
\* selected when it was made.
ResultsAppliedInOrder ==
    /\ [](OneAnalysis /\ LatestWhenIdle)
    /\ [][NextInOrder]_vars

\* C13, the case: the result of the page load's call is on the page while
\* two later calls, made with other selections, are both pending.
ResultsAppliedInOrderWitness ==
    /\ Shown = 1
    /\ Len(timers) = 2
    /\ timers[1].symbol = "MSFT"
    /\ timers[2].timeframe = "weekly"
    /\ timers[1].timeframe # timers[2].timeframe

====
